---- MODULE Spec2Model ----
(***************************************************************************)
(* Conversation store (app/services/conversation_store.py) and the         *)
(* streaming bridge (GeminiService.generate_stream in                      *)
(* app/services/gemini_service.py) of the chat server.                     *)
(*                                                                         *)
(* Time is a discrete clock `now` (datetime.now()).  The store's mapping   *)
(* is a Python dict, modelled as the sequence of its values in insertion   *)
(* order.  Every store method runs under the store's RLock, so a method is *)
(* one action; _cleanup_old_conversations reads the clock and the last     *)
(* cleanup time before it takes the lock, so the reaper's call is two      *)
(* steps.                                                                  *)
(***************************************************************************)
EXTENDS Integers, Sequences, FiniteSets, TLC

\* ---------------------------------------------------------------- bounds
MaxTime == 3          \* the clock stops here when evictions are explored
MaxClock == 1         \* the clock stops here when messages are explored
MaxCreated == 3       \* cap on total_conversations_created
MaxStored == 2        \* cap on total_messages_stored
MaxFragments == 2     \* cap on the fragments one backend stream yields
MaxOtherCreated == 1  \* other callers create only while fewer conversations were ever created
MaxMessages == 11     \* cap on total_messages_stored when contexts are explored
MaxOpsStored == 1     \* cap on total_messages_stored when all store methods are explored

\* ------------------------------------------------- constructor arguments
\* ConversationStore(max_conversations, max_conversation_age_hours,
\* cleanup_interval_seconds), scaled to clock ticks.
max_conversations == 2
max_conversation_age == 2
cleanup_interval == 1

\* get_conversation_context(conversation_id, include_last_n=10) in generate_stream
stream_include_last_n == 10

Ids == {"A", "B", "C"}                            \* caller-supplied ids
Exchanges == {<<"hi", "hello">>, <<"q", "r">>}    \* (query, response) of direct add_message calls
None == "None"
NoTime == -1                                      \* _stats["last_cleanup"] = None

Streams == {"s1"}                                 \* generate_stream invocations
Uuid == [s \in Streams |-> "u1"]                  \* str(uuid.uuid4()) of each
StreamIds == {"A"}                                \* ids a streaming client may send unprompted
StreamQueries == [s \in Streams |-> "what"]       \* the query of each request
Fragments == {"", "Hel", "lo"}                    \* chunk_data.text of a backend fragment
OtherExchange == <<"q", "r">>                     \* what another caller appends during a stream
AllIds == Ids \cup {Uuid[s] : s \in Streams}
ContextSizes == {-1, 0, 1, 2, 10, 12}             \* include_last_n of direct get_conversation_context calls
NthQuery(n) == "q" \o ToString(n)                 \* the exchange a client appends after n stored ones
NthResponse(n) == "r" \o ToString(n)
NoContext == [include_last_n |-> 0, context |-> <<>>]
\* how a POST /query request ends: the response, or the HTTPException raised
QueryOutcomes == {"ok", "not_configured", "empty_query", "config_error", "backend_error"}

VARIABLES
    now,             \* datetime.now()
    conversations,   \* ConversationStore._conversations, in insertion order
    stats,           \* ConversationStore._stats
    reaper,          \* the cleanup thread: position, its pass's `now`, wake time
    ret,             \* the last call made: operation, id, result
    returned,        \* the last get_conversation_context call: its include_last_n, <<>> for None or <<context>>
    hist,            \* per live id, the successful add_message calls since its creation
    loop_owner,      \* the coroutine the event loop is running, None between turns
    pc,              \* per stream, where generate_stream stands
    request_id,      \* per stream, the conversation_id argument as received
    conversation_id, \* per stream, the local conversation_id
    prompt_input,    \* per stream, the local prompt_input
    full_response,   \* per stream, the local full_response
    queue,           \* per stream, the asyncio.Queue between worker and generator
    worker,          \* per stream, where stream_worker stands
    produced,        \* per stream, the fragments the backend has yielded
    events,          \* per stream, the frames the generator has yielded
    committed        \* per stream, the add_message calls the generator has made

storeVars == <<now, conversations, stats, reaper, hist>>
streamVars == <<loop_owner, pc, request_id, conversation_id, prompt_input, full_response,
                queue, worker, produced, events, committed>>
vars == <<storeVars, ret, returned, streamVars>>

\* ------------------------------------------------------------ dict helpers
KeysOf(convs) == {convs[i].conversation_id : i \in 1..Len(convs)}

Has(convs, id) == id \in KeysOf(convs)

IndexOf(convs, id) == CHOOSE i \in 1..Len(convs) : convs[i].conversation_id = id

Lookup(convs, id) == convs[IndexOf(convs, id)]

IdsOf(convs) == [i \in 1..Len(convs) |-> convs[i].conversation_id]

Range(s) == {s[i] : i \in 1..Len(s)}

Without(convs, ids) == SelectSeq(convs, LAMBDA c : c.conversation_id \notin ids)

\* ------------------------------------------------------------ dataclasses
NewMessage(q, r, t) == [query |-> q, response |-> r, timestamp |-> t]

NewConversation(id, t) ==
    [conversation_id |-> id, messages |-> <<>>, created_at |-> t, last_accessed |-> t]

\* a bug: the message is put in front of the list
ConvAddMessage_Prepend(c, q, r, t) ==
    [c EXCEPT !.messages = <<NewMessage(q, r, t)>> \o @, !.last_accessed = t]

\* a bug: the list is kept short by dropping its oldest message on append
ConvAddMessage_DropsOldest(c, q, r, t) ==
    [c EXCEPT !.messages = (IF @ = <<>> THEN @ ELSE Tail(@)) \o <<NewMessage(q, r, t)>>,
              !.last_accessed = t]

\* a bug: a lost update, the list is rebuilt from a copy read before the
\* other caller's append
ConvAddMessage_LostUpdate(c, q, r, t) ==
    [c EXCEPT !.messages = <<NewMessage(q, r, t)>>, !.last_accessed = t]

\* Conversation.add_message
ConvAddMessage(c, q, r, t) ==
    [c EXCEPT !.messages = Append(@, NewMessage(q, r, t)), !.last_accessed = t]

\* a bug: the slice takes the oldest n messages, messages[:n]
RecentMessages_Oldest(msgs, n) ==
    IF n > 0 /\ Len(msgs) > n THEN SubSeq(msgs, 1, n) ELSE msgs

\* Conversation.get_context_for_gemini
RecentMessages(msgs, n) ==
    IF n > 0 /\ Len(msgs) > n THEN SubSeq(msgs, Len(msgs) - n + 1, Len(msgs)) ELSE msgs

\* a bug: the model entry is appended before the user entry
get_context_for_gemini_ModelFirst(c, include_last_n) ==
    LET recent == RecentMessages(c.messages, include_last_n)
    IN  [k \in 1..(2 * Len(recent)) |->
            IF k % 2 = 1
            THEN [role |-> "model", text |-> recent[(k + 1) \div 2].response]
            ELSE [role |-> "user", text |-> recent[k \div 2].query]]

get_context_for_gemini(c, include_last_n) ==
    LET recent == RecentMessages(c.messages, include_last_n)
    IN  [k \in 1..(2 * Len(recent)) |->
            IF k % 2 = 1
            THEN [role |-> "user", text |-> recent[(k + 1) \div 2].query]
            ELSE [role |-> "model", text |-> recent[k \div 2].response]]

\* a bug: the list is left in dict order, the sort is missing
SortByLastAccessed_Unsorted(s) == s

\* ------------------------------------------------ _cleanup_old_conversations
\* list.sort(key=last_accessed): stable, ascending
RECURSIVE SortByLastAccessed(_)
SortByLastAccessed(s) ==
    IF s = <<>> THEN <<>>
    ELSE LET init == SortByLastAccessed(SubSeq(s, 1, Len(s) - 1))
             c == s[Len(s)]
             k == Cardinality({i \in 1..Len(init) :
                                 init[i].last_accessed <= c.last_accessed})
         IN  SubSeq(init, 1, k) \o <<c>> \o SubSeq(init, k + 1, Len(init))

\* a bug: the age loop runs only when the store is over capacity
AgedIds_OnlyOverCapacity(convs, t) ==
    IF Len(convs) > max_conversations
    THEN IdsOf(SelectSeq(convs, LAMBDA c : c.last_accessed < t - max_conversation_age))
    ELSE <<>>

\* the ids marked by the age loop, in dict order
AgedIds(convs, t) ==
    IdsOf(SelectSeq(convs, LAMBDA c : c.last_accessed < t - max_conversation_age))

\* a bug: the capacity branch takes the excess from the end of the sorted
\* list, the most recently accessed conversations
CapacityIds_Newest(convs, aged) ==
    IF Len(convs) - Len(aged) > max_conversations
    THEN LET remaining_conversations == SortByLastAccessed(Without(convs, Range(aged)))
             excess_count == Len(remaining_conversations) - max_conversations
         IN  IF excess_count > 0
             THEN IdsOf(SubSeq(remaining_conversations,
                               Len(remaining_conversations) - excess_count + 1,
                               Len(remaining_conversations)))
             ELSE <<>>
    ELSE <<>>

\* the ids marked by the capacity branch
CapacityIds(convs, aged) ==
    IF Len(convs) - Len(aged) > max_conversations
    THEN LET remaining_conversations == SortByLastAccessed(Without(convs, Range(aged)))
             excess_count == Len(remaining_conversations) - max_conversations
         IN  IF excess_count > 0
             THEN IdsOf(SubSeq(remaining_conversations, 1, excess_count))
             ELSE <<>>
    ELSE <<>>

\* the body run under the lock, with the `now` the call read on entry
CleanupLocked(convs, st, t) ==
    LET aged == AgedIds(convs, t)
        conversations_to_remove == aged \o CapacityIds(convs, aged)
    IN  [conversations |-> Without(convs, Range(conversations_to_remove)),
         stats |-> [st EXCEPT
                      !.conversations_cleaned_up = @ + Len(conversations_to_remove),
                      !.last_cleanup = t],
         removed |-> Range(conversations_to_remove)]

\* a bug: the interval test is missing, every call runs the pass
CleanupSkips_Never(force, st, t) == FALSE

\* the interval test made before the lock is taken: TRUE when the call returns 0
CleanupSkips(force, st, t) ==
    /\ ~force
    /\ st.last_cleanup # NoTime
    /\ t - st.last_cleanup < cleanup_interval

\* a bug: the insert is not followed by the forced cleanup
create_conversation_NoCleanup(convs, st, id, t) ==
    IF Has(convs, id)
    THEN [conversations |-> convs, stats |-> st, removed |-> {}]
    ELSE [conversations |-> Append(convs, NewConversation(id, t)),
          stats |-> [st EXCEPT !.total_conversations_created = @ + 1],
          removed |-> {}]

\* a bug: an id already present is given a new, empty conversation
create_conversation_Overwrite(convs, st, id, t) ==
    IF Has(convs, id)
    THEN [conversations |-> [convs EXCEPT ![IndexOf(convs, id)] = NewConversation(id, t)],
          stats |-> st, removed |-> {}]
    ELSE LET inserted == Append(convs, NewConversation(id, t))
             counted == [st EXCEPT !.total_conversations_created = @ + 1]
         IN  IF Len(inserted) > max_conversations
             THEN CleanupLocked(inserted, counted, t)
             ELSE [conversations |-> inserted, stats |-> counted, removed |-> {}]

\* a bug: a create of an id already present is counted as a creation
create_conversation_CountsExisting(convs, st, id, t) ==
    IF Has(convs, id)
    THEN [conversations |-> convs,
          stats |-> [st EXCEPT !.total_conversations_created = @ + 1],
          removed |-> {}]
    ELSE LET inserted == Append(convs, NewConversation(id, t))
             counted == [st EXCEPT !.total_conversations_created = @ + 1]
         IN  IF Len(inserted) > max_conversations
             THEN CleanupLocked(inserted, counted, t)
             ELSE [conversations |-> inserted, stats |-> counted, removed |-> {}]

\* ------------------------------------------------------------ store methods
\* each yields the new mapping and counters, the result and the ids removed
create_conversation(convs, st, id, t) ==
    IF Has(convs, id)
    THEN [conversations |-> convs, stats |-> st, removed |-> {}]
    ELSE LET inserted == Append(convs, NewConversation(id, t))
             counted == [st EXCEPT !.total_conversations_created = @ + 1]
         IN  IF Len(inserted) > max_conversations
             THEN CleanupLocked(inserted, counted, t)
             ELSE [conversations |-> inserted, stats |-> counted, removed |-> {}]

\* a bug: an unknown id is given a conversation instead of being refused
add_message_HealsUnknown(convs, st, id, q, r, t) ==
    LET healed == IF Has(convs, id) THEN convs ELSE Append(convs, NewConversation(id, t))
    IN  [conversations |->
             [healed EXCEPT ![IndexOf(healed, id)] = ConvAddMessage(@, q, r, t)],
         stats |-> [st EXCEPT !.total_messages_stored = @ + 1],
         ok |-> TRUE]

\* a bug: a refused message is counted all the same
add_message_CountsUnknown(convs, st, id, q, r, t) ==
    IF ~Has(convs, id)
    THEN [conversations |-> convs,
          stats |-> [st EXCEPT !.total_messages_stored = @ + 1],
          ok |-> FALSE]
    ELSE [conversations |->
              [convs EXCEPT ![IndexOf(convs, id)] = ConvAddMessage(@, q, r, t)],
          stats |-> [st EXCEPT !.total_messages_stored = @ + 1],
          ok |-> TRUE]

add_message(convs, st, id, q, r, t) ==
    IF ~Has(convs, id)
    THEN [conversations |-> convs, stats |-> st, ok |-> FALSE]
    ELSE [conversations |->
              [convs EXCEPT ![IndexOf(convs, id)] = ConvAddMessage(@, q, r, t)],
          stats |-> [st EXCEPT !.total_messages_stored = @ + 1],
          ok |-> TRUE]

\* a bug: a read does not count as an access
get_conversation_NoTouch(convs, id, t) == convs

get_conversation(convs, id, t) ==
    IF Has(convs, id)
    THEN [convs EXCEPT ![IndexOf(convs, id)].last_accessed = t]
    ELSE convs

\* <<>> for None, <<context>> otherwise
get_conversation_context(convs, id, include_last_n) ==
    IF Has(convs, id)
    THEN <<get_context_for_gemini(Lookup(convs, id), include_last_n)>>
    ELSE <<>>

\* a bug: the conversations inserted after the deleted one go with it
delete_conversation_Truncates(convs, id) ==
    IF Has(convs, id) THEN SubSeq(convs, 1, IndexOf(convs, id) - 1) ELSE convs

delete_conversation(convs, id) == Without(convs, {id})

conversation_exists(convs, id) == Has(convs, id)

\* a bug: the active count is derived from the counters, which delete and
\* clear_all do not move
get_stats_ActiveFromCounters(convs, st) ==
    [total_conversations_created |-> st.total_conversations_created,
     total_messages_stored |-> st.total_messages_stored,
     conversations_cleaned_up |-> st.conversations_cleaned_up,
     last_cleanup |-> st.last_cleanup,
     active_conversations |-> st.total_conversations_created - st.conversations_cleaned_up,
     max_conversations |-> max_conversations,
     max_conversation_age_hours |-> max_conversation_age]

get_stats(convs, st) ==
    [total_conversations_created |-> st.total_conversations_created,
     total_messages_stored |-> st.total_messages_stored,
     conversations_cleaned_up |-> st.conversations_cleaned_up,
     last_cleanup |-> st.last_cleanup,
     active_conversations |-> Len(convs),
     max_conversations |-> max_conversations,
     max_conversation_age_hours |-> max_conversation_age]

clear_all(convs) == <<>>

\* the record of the successful add_message calls, kept for live ids only
HistAfter(h, convs, fresh) ==
    [i \in AllIds |-> IF Has(convs, i) /\ i \notin fresh THEN h[i] ELSE <<>>]

Call(op, id, ok) == [op |-> op, id |-> id, ok |-> ok]

\* whether a call makes all its reads and writes of the store inside
\* `with self._lock`.  Three do not: _cleanup_old_conversations tests
\* _stats["last_cleanup"] before it takes the lock (lines 297-305);
\* get_conversation_context reads the messages after get_conversation has
\* released it (lines 223-227), for a direct caller and for generate_stream;
\* GET /conversation/{id} reads the fields and messages of the conversation
\* get_conversation returned (query.py lines 273-293).
UnderLock(op) == op \notin {"cleanup_check", "get_context", "stream_context", "history"}


\* ------------------------------------------------------ streaming helpers
\* StreamingChunk(text, model, conversation_id, done, error) as sent in a frame
Chunk(text, id, done, error) ==
    [text |-> text, conversation_id |-> id, done |-> done, error |-> error]

\* what stream_worker puts on the queue: a fragment, None, or the exception
FragmentItem(text) == [kind |-> "chunk", text |-> text]
EndItem == [kind |-> "end", text |-> ""]
ErrorItem == [kind |-> "error", text |-> "backend error"]

\* a bug: the id the client sent is ignored, a new one is always minted
ResolveId_AlwaysFresh(s, requested) == Uuid[s]

\* lines 160-166: the id the stream works under
ResolveId(s, requested) == IF requested = None THEN Uuid[s] ELSE requested

\* lines 171-183: prompt_input, the query itself or the history ending with it
NoPrompt == [kind |-> "unset", text |-> "", history |-> <<>>]

\* a bug: the stored exchanges are not sent, only the query
BuildPrompt_DropsHistory(context, query) ==
    [kind |-> "text", text |-> query, history |-> <<>>]

BuildPrompt(context, query) ==
    IF context # <<>> /\ context[1] # <<>>
    THEN [kind |-> "history", text |-> "",
          history |-> Append(context[1], [role |-> "user", text |-> query])]
    ELSE [kind |-> "text", text |-> query, history |-> <<>>]

\* ------------------------------------------------------------------- Init
Init ==
    /\ now = 0
    /\ conversations = <<>>
    /\ stats = [total_conversations_created |-> 0,
                total_messages_stored |-> 0,
                conversations_cleaned_up |-> 0,
                last_cleanup |-> NoTime]
    /\ reaper = [pc |-> "sleep", now |-> 0, wake |-> cleanup_interval]
    /\ ret = Call("init", None, TRUE)
    /\ returned = NoContext
    /\ hist = [i \in AllIds |-> <<>>]
    /\ loop_owner = None
    /\ pc = [s \in Streams |-> "idle"]
    /\ request_id = [s \in Streams |-> None]
    /\ conversation_id = [s \in Streams |-> None]
    /\ prompt_input = [s \in Streams |-> NoPrompt]
    /\ full_response = [s \in Streams |-> ""]
    /\ queue = [s \in Streams |-> <<>>]
    /\ worker = [s \in Streams |-> "none"]
    /\ produced = [s \in Streams |-> <<>>]
    /\ events = [s \in Streams |-> <<>>]
    /\ committed = [s \in Streams |-> <<>>]

\* ----------------------------------------------------------- store actions
Tick(cap) ==
    /\ now < cap
    /\ now' = now + 1
    /\ ret' = Call("tick", None, TRUE)
    /\ UNCHANGED <<returned, conversations, stats, reaper, hist, streamVars>>

Create(id) ==
    LET r == create_conversation(conversations, stats, id, now)
    IN  /\ Has(conversations, id) \/ stats.total_conversations_created < MaxCreated
        /\ conversations' = r.conversations
        /\ stats' = r.stats
        /\ ret' = Call("create", id, ~Has(conversations, id))
        /\ hist' = HistAfter(hist, r.conversations,
                             IF Has(conversations, id) THEN {} ELSE {id})
        /\ UNCHANGED <<returned, now, reaper, streamVars>>

AddMessageCapped(cap, id, q, r) ==
    LET a == add_message(conversations, stats, id, q, r, now)
    IN  /\ Has(conversations, id) => stats.total_messages_stored < cap
        /\ conversations' = a.conversations
        /\ stats' = a.stats
        /\ ret' = Call("add_message", id, a.ok)
        /\ hist' = IF a.ok THEN [hist EXCEPT ![id] = Append(@, <<q, r>>)] ELSE hist
        /\ UNCHANGED <<returned, now, reaper, streamVars>>

AddMessage(id, q, r) == AddMessageCapped(MaxStored, id, q, r)

\* a direct get_conversation_context call (the history endpoint's store reads)
GetContext(id, n) ==
    /\ returned' = [include_last_n |-> n,
                    context |-> get_conversation_context(conversations, id, n)]
    /\ conversations' = get_conversation(conversations, id, now)
    /\ ret' = Call("get_context", id, Has(conversations, id))
    /\ UNCHANGED <<now, stats, reaper, hist, streamVars>>

Get(id) ==
    /\ conversations' = get_conversation(conversations, id, now)
    /\ ret' = Call("get", id, Has(conversations, id))
    /\ UNCHANGED <<returned, now, stats, reaper, hist, streamVars>>

Delete(id) ==
    /\ conversations' = delete_conversation(conversations, id)
    /\ ret' = Call("delete", id, Has(conversations, id))
    /\ hist' = HistAfter(hist, conversations', {})
    /\ UNCHANGED <<returned, now, stats, reaper, streamVars>>

\* a bug: the membership test counts as an access
Exists_Touches(id) ==
    /\ conversations' = get_conversation(conversations, id, now)
    /\ ret' = Call("exists", id, conversation_exists(conversations, id))
    /\ UNCHANGED <<returned, now, stats, reaper, hist, streamVars>>

Exists(id) ==
    /\ ret' = Call("exists", id, conversation_exists(conversations, id))
    /\ UNCHANGED <<returned, storeVars, streamVars>>

\* get_stats, as GET /conversations/stats calls it
GetStats ==
    /\ ret' = Call("get_stats", None, TRUE)
    /\ UNCHANGED <<returned, storeVars, streamVars>>

ClearAll ==
    /\ conversations' = clear_all(conversations)
    /\ ret' = Call("clear_all", None, conversations # <<>>)
    /\ hist' = HistAfter(hist, conversations', {})
    /\ UNCHANGED <<returned, now, stats, reaper, streamVars>>

\* a bug: the read endpoint heals an unknown id as the streaming path does
History_Heals(id) ==
    LET r == create_conversation(conversations, stats, id, now)
    IN  /\ conversations' = get_conversation(r.conversations, id, now)
        /\ stats' = r.stats
        /\ ret' = Call("history", id, TRUE)
        /\ hist' = HistAfter(hist, r.conversations,
                             IF Has(conversations, id) THEN {} ELSE {id})
        /\ UNCHANGED <<returned, now, reaper, streamVars>>

\* GET /conversation/{conversation_id}: get_conversation, then 404 or the
\* conversation's fields and messages
History(id) ==
    /\ conversations' = get_conversation(conversations, id, now)
    /\ ret' = Call("history", id, Has(conversations, id))
    /\ UNCHANGED <<returned, now, stats, reaper, hist, streamVars>>

\* a bug: the exchange of a successful query is stored under a new
\* conversation, as the streaming path stores its own
Query_Stores(outcome) ==
    LET id == CHOOSE i \in Ids : TRUE
        r == create_conversation(conversations, stats, id, now)
        a == add_message(r.conversations, r.stats, id, "what", "answer", now)
    IN  /\ ret' = Call("query", outcome, outcome = "ok")
        /\ conversations' = IF outcome = "ok" THEN a.conversations ELSE conversations
        /\ stats' = IF outcome = "ok" THEN a.stats ELSE stats
        /\ hist' = hist
        /\ UNCHANGED <<returned, now, reaper, streamVars>>

\* POST /query: query_ai and generate_response, which never name the store
Query(outcome) ==
    /\ ret' = Call("query", outcome, outcome = "ok")
    /\ UNCHANGED <<returned, storeVars, streamVars>>

\* cleanup_worker: time.sleep(cleanup_interval) is over; the call reads the
\* clock and makes the interval test, outside the lock
ReaperCheck ==
    /\ reaper.pc = "sleep"
    /\ now >= reaper.wake
    /\ reaper' = IF CleanupSkips(FALSE, stats, now)
                 THEN [pc |-> "sleep", now |-> 0, wake |-> now + cleanup_interval]
                 ELSE [pc |-> "pass", now |-> now, wake |-> reaper.wake]
    /\ ret' = Call("cleanup_check", None, ~CleanupSkips(FALSE, stats, now))
    /\ UNCHANGED <<returned, now, conversations, stats, hist, streamVars>>

\* the pass itself, under the lock, with the clock value read in ReaperCheck
ReaperPass ==
    LET r == CleanupLocked(conversations, stats, reaper.now)
    IN  /\ reaper.pc = "pass"
        /\ conversations' = r.conversations
        /\ stats' = r.stats
        /\ reaper' = [pc |-> "sleep", now |-> 0, wake |-> now + cleanup_interval]
        /\ ret' = Call("cleanup", None, r.removed # {})
        /\ hist' = HistAfter(hist, r.conversations, {})
        /\ UNCHANGED <<returned, now, streamVars>>

\* a bug: the exception of a failing pass escapes the loop and ends the thread
ReaperFail_Dies ==
    /\ reaper.pc = "pass"
    /\ reaper' = [pc |-> "dead", now |-> 0, wake |-> reaper.wake]
    /\ ret' = Call("cleanup_failed", None, FALSE)
    /\ UNCHANGED <<returned, now, conversations, stats, hist, streamVars>>

\* cleanup_worker lines 348-349: the pass raises, the handler logs the error
\* and the loop goes back to time.sleep
ReaperFail ==
    /\ reaper.pc = "pass"
    /\ reaper' = [pc |-> "sleep", now |-> 0, wake |-> now + cleanup_interval]
    /\ ret' = Call("cleanup_failed", None, FALSE)
    /\ UNCHANGED <<returned, now, conversations, stats, hist, streamVars>>

\* ---------------------------------------------------------- stream actions
\* generate_stream lines 157-166, first turn of the generator: the request is
\* taken and its conversation resolved
StreamOpen(s, requested) ==
    LET id == ResolveId(s, requested)
        r == create_conversation(conversations, stats, id, now)
    IN  /\ pc[s] = "idle"
        /\ loop_owner = None
        /\ Has(conversations, id) \/ stats.total_conversations_created < MaxCreated
        /\ conversations' = r.conversations
        /\ stats' = r.stats
        /\ hist' = HistAfter(hist, r.conversations,
                             IF Has(conversations, id) THEN {} ELSE {id})
        /\ request_id' = [request_id EXCEPT ![s] = requested]
        /\ conversation_id' = [conversation_id EXCEPT ![s] = id]
        /\ pc' = [pc EXCEPT ![s] = "resolved"]
        /\ loop_owner' = s
        /\ ret' = Call("stream_open", id, ~Has(conversations, id))
        /\ UNCHANGED <<returned, now, reaper, prompt_input, full_response, queue, worker,
                       produced, events, committed>>

\* lines 168-219, same turn: the context is fetched, the prompt built and the
\* worker handed to the executor; the generator then awaits queue.get()
StreamContext(s) ==
    LET id == conversation_id[s]
        context == get_conversation_context(conversations, id, stream_include_last_n)
    IN  /\ pc[s] = "resolved"
        /\ loop_owner = s
        /\ conversations' = get_conversation(conversations, id, now)
        /\ prompt_input' = [prompt_input EXCEPT ![s] = BuildPrompt(context, StreamQueries[s])]
        /\ worker' = [worker EXCEPT ![s] = "run"]
        /\ pc' = [pc EXCEPT ![s] = "await"]
        /\ loop_owner' = None
        /\ ret' = Call("stream_context", id, context # <<>>)
        /\ UNCHANGED <<returned, request_id, now, stats, reaper, hist, conversation_id, full_response,
                       queue, produced, events, committed>>

\* a bug: a last-in first-out hand-over
QueuePut_Front(q, item) == <<item>> \o q

\* asyncio.Queue.put from the worker thread: first in, first out
QueuePut(q, item) == Append(q, item)

\* a bug: the prompt follows the store, it is rebuilt from the conversation
\* at every fragment
WorkerPull_RereadsContext(s, text) ==
    /\ worker[s] = "run"
    /\ loop_owner = None
    /\ Len(produced[s]) < MaxFragments
    /\ produced' = [produced EXCEPT ![s] = Append(@, text)]
    /\ queue' = [queue EXCEPT ![s] = QueuePut(@, FragmentItem(text))]
    /\ prompt_input' = [prompt_input EXCEPT ![s] =
            BuildPrompt(get_conversation_context(conversations, conversation_id[s],
                                                 stream_include_last_n),
                        StreamQueries[s])]
    /\ ret' = Call("worker_pull", None, TRUE)
    /\ UNCHANGED <<returned, request_id, storeVars, loop_owner, pc, conversation_id,
                   full_response, worker, events, committed>>

\* stream_worker lines 201-205: the backend yields a fragment and the worker
\* puts it on the queue
WorkerPull(s, text) ==
    /\ worker[s] = "run"
    /\ loop_owner = None
    /\ Len(produced[s]) < MaxFragments
    /\ produced' = [produced EXCEPT ![s] = Append(@, text)]
    /\ queue' = [queue EXCEPT ![s] = QueuePut(@, FragmentItem(text))]
    /\ ret' = Call("worker_pull", None, TRUE)
    /\ UNCHANGED <<returned, request_id, storeVars, loop_owner, pc, conversation_id, prompt_input,
                   full_response, worker, events, committed>>

\* lines 207-210: the backend stream is exhausted, the worker puts None
WorkerEnd(s) ==
    /\ worker[s] = "run"
    /\ loop_owner = None
    /\ queue' = [queue EXCEPT ![s] = QueuePut(@, EndItem)]
    /\ worker' = [worker EXCEPT ![s] = "ended"]
    /\ ret' = Call("worker_end", None, TRUE)
    /\ UNCHANGED <<returned, request_id, storeVars, loop_owner, pc, conversation_id, prompt_input,
                   full_response, produced, events, committed>>

\* a bug: the worker's handler swallows the exception and puts nothing
WorkerRaise_Swallows(s) ==
    /\ worker[s] = "run"
    /\ loop_owner = None
    /\ worker' = [worker EXCEPT ![s] = "raised"]
    /\ ret' = Call("worker_raise", None, TRUE)
    /\ UNCHANGED <<returned, request_id, storeVars, loop_owner, pc, conversation_id,
                   prompt_input, full_response, queue, produced, events, committed>>

\* lines 212-216: the backend call or its iteration raises, the worker puts
\* the exception
WorkerRaise(s) ==
    /\ worker[s] = "run"
    /\ loop_owner = None
    /\ queue' = [queue EXCEPT ![s] = QueuePut(@, ErrorItem)]
    /\ worker' = [worker EXCEPT ![s] = "raised"]
    /\ ret' = Call("worker_raise", None, TRUE)
    /\ UNCHANGED <<returned, request_id, storeVars, loop_owner, pc, conversation_id, prompt_input,
                   full_response, produced, events, committed>>

\* a bug: the final frame is yielded after the handler too
Yielded_BothTerminals(item, id) ==
    CASE item.kind = "end" -> <<Chunk("", id, TRUE, None)>>
      [] item.kind = "error" -> <<Chunk("", id, TRUE, item.text), Chunk("", id, TRUE, None)>>
      [] item.kind = "chunk" /\ item.text # "" -> <<Chunk(item.text, id, FALSE, None)>>
      [] OTHER -> <<>>

\* a bug: the last fragment replaces the text collected so far
Accumulate_Overwrite(full, item) ==
    IF item.kind = "chunk" /\ item.text # "" THEN item.text ELSE full

\* a bug: the partial text is stored when the backend failed, too
Commits_AlsoOnError(item) == item.kind \in {"end", "error"}

\* lines 225-252, what the generator does with one item of the queue
\* the frames it yields for it
Yielded(item, id) ==
    CASE item.kind = "end" -> <<Chunk("", id, TRUE, None)>>
      [] item.kind = "error" -> <<Chunk("", id, TRUE, item.text)>>
      [] item.kind = "chunk" /\ item.text # "" -> <<Chunk(item.text, id, FALSE, None)>>
      [] OTHER -> <<>>

\* full_response after it (lines 234-235)
Accumulate(full, item) ==
    IF item.kind = "chunk" /\ item.text # "" THEN full \o item.text ELSE full

\* a bug: the text collected so far is stored at every fragment, while the
\* backend call is still in progress
Commits_EveryChunk(item) == item.kind \in {"end", "chunk"}

\* whether it makes the generator call add_message (lines 225-227)
Commits(item) == item.kind = "end"

\* whether the generator leaves its loop on it (lines 228, 231)
Leaves(item) == item.kind \in {"end", "error"}

\* lines 222-252: queue.get() returns an item and the generator runs to its
\* next yield or its next await
StreamGet(s) ==
    LET item == Head(queue[s])
        id == conversation_id[s]
        a == IF Commits(item)
             THEN add_message(conversations, stats, id, StreamQueries[s],
                              full_response[s], now)
             ELSE [conversations |-> conversations, stats |-> stats, ok |-> FALSE]
    IN  /\ pc[s] = "await"
        /\ loop_owner = None
        /\ queue[s] # <<>>
        /\ Commits(item) /\ Has(conversations, id) => stats.total_messages_stored < MaxStored
        /\ queue' = [queue EXCEPT ![s] = Tail(@)]
        /\ conversations' = a.conversations
        /\ stats' = a.stats
        /\ hist' = IF a.ok
                   THEN [hist EXCEPT ![id] = Append(@, <<StreamQueries[s], full_response[s]>>)]
                   ELSE hist
        /\ committed' = IF Commits(item)
                        THEN [committed EXCEPT ![s] =
                                Append(@, [conversation_id |-> id, query |-> StreamQueries[s],
                                           response |-> full_response[s], ok |-> a.ok])]
                        ELSE committed
        /\ full_response' = [full_response EXCEPT ![s] = Accumulate(@, item)]
        /\ events' = [events EXCEPT ![s] = @ \o Yielded(item, id)]
        /\ pc' = [pc EXCEPT ![s] = IF Leaves(item) THEN "done" ELSE "await"]
        /\ ret' = Call("stream_" \o item.kind, id, a.ok)
        /\ UNCHANGED <<returned, request_id, now, reaper, loop_owner, conversation_id, prompt_input,
                       worker, produced>>

\* a bug: closing the generator stores what was collected so far
Disconnect_Commits(s) ==
    LET id == conversation_id[s]
        a == add_message(conversations, stats, id, StreamQueries[s], full_response[s], now)
    IN  /\ pc[s] = "await"
        /\ pc' = [pc EXCEPT ![s] = "closed"]
        /\ conversations' = a.conversations
        /\ stats' = a.stats
        /\ hist' = IF a.ok
                   THEN [hist EXCEPT ![id] = Append(@, <<StreamQueries[s], full_response[s]>>)]
                   ELSE hist
        /\ committed' = [committed EXCEPT ![s] =
                            Append(@, [conversation_id |-> id, query |-> StreamQueries[s],
                                       response |-> full_response[s], ok |-> a.ok])]
        /\ ret' = Call("disconnect", None, TRUE)
        /\ UNCHANGED <<returned, request_id, now, reaper, loop_owner, conversation_id, prompt_input,
                       full_response, queue, worker, produced, events>>

\* the consumer goes away before the terminal frame: the generator, suspended
\* at a yield or at queue.get(), is closed or cancelled (GeneratorExit and
\* CancelledError are not caught by `except Exception`)
Disconnect(s) ==
    /\ pc[s] = "await"
    /\ pc' = [pc EXCEPT ![s] = "closed"]
    /\ ret' = Call("disconnect", None, TRUE)
    /\ UNCHANGED <<returned, request_id, storeVars, loop_owner, conversation_id, prompt_input,
                   full_response, queue, worker, produced, events, committed>>

\* ---------------------------------------------------------- specifications
\* the store under its callers and the reaper, the clock running to MaxTime
Next ==
    \/ Tick(MaxTime)
    \/ \E id \in Ids : Create(id)
    \/ \E id \in Ids : Get(id)
    \/ \E id \in Ids : Delete(id)
    \/ ReaperCheck
    \/ ReaperPass

Spec == Init /\ [][Next]_vars

\* every store method, with the reaper and the clock; the calls that read or
\* append are made on the ids of StreamIds
OpsNext ==
    \/ Tick(MaxTime)
    \/ \E id \in Ids : Create(id)
    \/ \E id \in Ids : Delete(id)
    \/ ClearAll
    \/ \E id \in StreamIds :
          AddMessageCapped(MaxOpsStored, id, OtherExchange[1], OtherExchange[2])
    \/ \E id \in StreamIds : Get(id)
    \/ \E id \in StreamIds : GetContext(id, stream_include_last_n)
    \/ \E id \in StreamIds : Exists(id)
    \/ GetStats
    \/ ReaperCheck
    \/ ReaperPass

OpsSpec == Init /\ [][OpsNext]_vars

\* the endpoints: POST /query, GET /conversation/{id}, GET /conversations/stats,
\* on a store that other requests fill
ApiNext ==
    \/ Tick(MaxClock)
    \/ \E id \in Ids : Create(id)
    \/ \E id \in StreamIds : AddMessage(id, OtherExchange[1], OtherExchange[2])
    \/ \E id \in Ids : History(id)
    \/ GetStats
    \/ \E outcome \in QueryOutcomes : Query(outcome)

ApiSpec == Init /\ [][ApiNext]_vars

\* the cleanup thread, whose passes may raise, on a store that requests
\* fill.  Time passes, the thread is scheduled when its sleep is over, and a
\* pass that has started returns or raises.
ReaperLiveNext ==
    \/ Tick(MaxTime)
    \/ \E id \in Ids : Create(id)
    \/ ReaperCheck
    \/ ReaperPass
    \/ ReaperFail

ReaperLiveSpec ==
    /\ Init
    /\ [][ReaperLiveNext]_vars
    /\ WF_vars(Tick(MaxTime))
    /\ WF_vars(ReaperCheck)
    /\ WF_vars(ReaperPass \/ ReaperFail)

\* the store under create, add_message and get, the clock running to MaxClock
MsgNext ==
    \/ Tick(MaxClock)
    \/ \E id \in Ids : Create(id)
    \/ \E id \in Ids, x \in Exchanges : AddMessage(id, x[1], x[2])
    \/ \E id \in Ids : Get(id)

MsgSpec == Init /\ [][MsgNext]_vars

\* a stream and its worker, among callers (other requests, other threads)
\* that create, append to and delete the conversations it may use
StreamNext ==
    \/ \E s \in Streams, requested \in {None} \cup StreamIds : StreamOpen(s, requested)
    \/ \E s \in Streams : StreamContext(s)
    \/ \E s \in Streams, text \in Fragments : WorkerPull(s, text)
    \/ \E s \in Streams : WorkerEnd(s)
    \/ \E s \in Streams : WorkerRaise(s)
    \/ \E s \in Streams : StreamGet(s)
    \/ \E s \in Streams : Disconnect(s)
    \/ \E id \in StreamIds :
          stats.total_conversations_created < MaxOtherCreated /\ Create(id)
    \/ \E id \in KeysOf(conversations) : AddMessage(id, OtherExchange[1], OtherExchange[2])
    \/ \E id \in KeysOf(conversations) : Delete(id)

StreamSpec == Init /\ [][StreamNext]_vars

\* a stream whose consumer keeps reading, among callers that create and delete
\* conversations.  The event loop runs a coroutine that is ready (the
\* generator's next turn), the executor runs the worker thread, and the
\* backend stream ends or raises after MaxFragments fragments at most.
StreamLiveNext ==
    \/ \E s \in Streams, requested \in {None} \cup StreamIds : StreamOpen(s, requested)
    \/ \E s \in Streams : StreamContext(s)
    \/ \E s \in Streams, text \in Fragments : WorkerPull(s, text)
    \/ \E s \in Streams : WorkerEnd(s)
    \/ \E s \in Streams : WorkerRaise(s)
    \/ \E s \in Streams : StreamGet(s)
    \/ \E id \in StreamIds :
          stats.total_conversations_created < MaxOtherCreated /\ Create(id)
    \/ \E id \in KeysOf(conversations) : Delete(id)

WorkerStep ==
    \E s \in Streams :
        \/ \E text \in Fragments : WorkerPull(s, text)
        \/ WorkerEnd(s)
        \/ WorkerRaise(s)

StreamLiveSpec ==
    /\ Init
    /\ [][StreamLiveNext]_vars
    /\ WF_vars(\E s \in Streams : StreamContext(s))
    /\ WF_vars(\E s \in Streams : StreamGet(s))
    /\ WF_vars(WorkerStep)

\* one conversation growing to MaxMessages exchanges, read by direct
\* get_conversation_context calls and by a stream up to its backend call
CtxNext ==
    \/ \E id \in StreamIds :
          stats.total_conversations_created < MaxOtherCreated /\ Create(id)
    \/ \E id \in StreamIds :
          AddMessageCapped(MaxMessages, id, NthQuery(stats.total_messages_stored),
                           NthResponse(stats.total_messages_stored))
    \/ \E id \in StreamIds, n \in ContextSizes : GetContext(id, n)
    \/ \E s \in Streams, requested \in {None} \cup StreamIds : StreamOpen(s, requested)
    \/ \E s \in Streams : StreamContext(s)
    \/ \E id \in KeysOf(conversations) : Delete(id)

CtxSpec == Init /\ [][CtxNext]_vars

\* ------------------------------------------------------------ properties
NonEmpty(texts) == SelectSeq(texts, LAMBDA x : x # "")

RECURSIVE Concat(_)
Concat(texts) == IF texts = <<>> THEN "" ELSE Head(texts) \o Concat(Tail(texts))

TextsOf(frames) == [i \in 1..Len(frames) |-> frames[i].text]

NonTerminal(frames) == SelectSeq(frames, LAMBDA e : ~e.done)

Terminal(frames) == SelectSeq(frames, LAMBDA e : e.done)

PendingTexts(q) == TextsOf(SelectSeq(q, LAMBDA x : x.kind = "chunk"))

IsPrefix(a, b) == Len(a) <= Len(b) /\ SubSeq(b, 1, Len(a)) = a

\* the (query, response) pairs a conversation holds
Pairs(c) == [k \in 1..Len(c.messages) |-> <<c.messages[k].query, c.messages[k].response>>]

\* the queries stored anywhere in the store
StoredQueries ==
    UNION {{conversations[i].messages[k].query : k \in 1..Len(conversations[i].messages)} :
             i \in 1..Len(conversations)}

\* the conversations an eviction pass made at time t must find too old
AgedSet(convs, t) ==
    {convs[i].conversation_id :
        i \in {j \in 1..Len(convs) : convs[j].last_accessed < t - max_conversation_age}}

\* every action records the call it made in ret: the step is a call of op
Returns(op) == ret'.op = op

\* the step is the reaper's eviction pass, made with the clock value reaper.now
ReaperPassStep == Returns("cleanup")

\* the step is a create call that inserted ret'.id and found the store over
\* capacity, so that it ran a forced eviction pass at time now
ForcedPassStep ==
    /\ Returns("create")
    /\ ret'.ok
    /\ Len(conversations) + 1 > max_conversations

\* the mapping a forced pass starts from
Inserted == Append(conversations, NewConversation(ret'.id, now))

\* ------------------------------------------------------------------ C1
\* C1: whenever a store call has returned (in every state between calls),
\* and so when a create call returns, the store holds at most
\* max_conversations conversations.
C1_ActiveCountBounded == Len(conversations) <= max_conversations

\* a create that overflowed the store has just returned, after evicting
C1_Witness ==
    /\ ret.op = "create" /\ ret.ok
    /\ stats.total_conversations_created > max_conversations
    /\ stats.conversations_cleaned_up > 0
    /\ stats.last_cleanup = now
    /\ Len(conversations) = max_conversations

CommitOf(s) ==
    [conversation_id |-> conversation_id[s], query |-> StreamQueries[s],
     response |-> Concat(NonEmpty(produced[s]))]

C3_CommitOnceThenDone ==
    /\ \A s \in Streams :
          worker[s] = "ended" /\ pc[s] = "done" =>
              /\ Len(committed[s]) = 1
              /\ [f \in {"conversation_id", "query", "response"} |-> committed[s][1][f]]
                    = CommitOf(s)
              /\ events[s] # <<>>
              /\ events[s][Len(events[s])] = Chunk("", conversation_id[s], TRUE, None)
    /\ \A s \in Streams :
          (\E i \in 1..Len(events[s]) : events[s][i].done /\ events[s][i].error = None)
              => Len(committed[s]) = 1
    /\ ret.op = "stream_end" /\ ret.ok =>
          /\ Has(conversations, ret.id)
          /\ \E s \in Streams :
                LET msgs == Lookup(conversations, ret.id).messages
                IN  /\ msgs # <<>>
                    /\ msgs[Len(msgs)].query = StreamQueries[s]
                    /\ msgs[Len(msgs)].response = Concat(NonEmpty(produced[s]))

\* Scenario D: fragments "Hel", "lo", two frames and the done frame, and the
\* conversation's message is "Hello"
C3_Witness ==
    \E s \in Streams :
        /\ ret.op = "stream_end" /\ ret.ok
        /\ produced[s] = <<"Hel", "lo">>
        /\ TextsOf(events[s]) = <<"Hel", "lo", "">>
        /\ Pairs(Lookup(conversations, conversation_id[s])) = <<<<StreamQueries[s], "Hello">>>>

C5_FragmentsInOrder ==
    \A s \in Streams :
        LET delivered == TextsOf(NonTerminal(events[s]))
        IN  /\ \A i \in 1..Len(delivered) : delivered[i] # ""
            /\ full_response[s] = Concat(delivered)
            /\ pc[s] \in {"await", "done"} =>
                  delivered \o NonEmpty(PendingTexts(queue[s])) = NonEmpty(produced[s])
            /\ pc[s] = "done" => delivered = NonEmpty(produced[s])
            /\ pc[s] = "closed" => IsPrefix(delivered, NonEmpty(produced[s]))

\* an empty fragment then "lo": one frame "lo", then the last frame
C5_Witness ==
    \E s \in Streams :
        /\ pc[s] = "done"
        /\ produced[s] = <<"", "lo">>
        /\ TextsOf(events[s]) = <<"lo", "">>
        /\ full_response[s] = "lo"

\* ------------------------------------------------------------------ C6
\* C6: a generator closed before its terminal frame has made no add_message
\* call, and no message of its exchange is in the store, whatever the worker
\* has done since.
C6_NoCommitAfterDisconnect ==
    \A s \in Streams :
        pc[s] = "closed" =>
            /\ committed[s] = <<>>
            /\ StreamQueries[s] \notin StoredQueries

\* closed after one frame; the worker has run to the end of the backend stream
C6_Witness ==
    \E s \in Streams :
        /\ pc[s] = "closed"
        /\ full_response[s] = "Hel"
        /\ worker[s] = "ended"
        /\ queue[s] # <<>>
        /\ Has(conversations, conversation_id[s])

\* ------------------------------------------------------------------ C7
\* C7: once the generator is closed, the worker pulls no further fragment
\* from the backend and puts nothing more on the queue.
C7_WorkerStopsOnDisconnect ==
    [][\A s \in Streams :
          pc[s] = "closed" => produced'[s] = produced[s] /\ queue'[s] = queue[s]]_vars

\* ------------------------------------------------------------------ C8
\* C8: when an eviction pass runs (the reaper's pass, or the forced pass of a
\* create), no conversation whose last_accessed is older than the pass's
\* time minus max_conversation_age is left in the store, whatever the count.
EvictsAged(before, after, t) == AgedSet(before, t) \cap KeysOf(after) = {}

C8_AgeEvictionUnconditional ==
    [][/\ ReaperPassStep => EvictsAged(conversations, conversations', reaper.now)
       /\ ForcedPassStep => EvictsAged(Inserted, conversations', now)]_vars

\* the reaper's pass removed a conversation of a store that was not over capacity
C8_Witness ==
    /\ ret.op = "cleanup" /\ ret.ok
    /\ stats.conversations_cleaned_up > 0
    /\ Len(conversations) < max_conversations

\* ------------------------------------------------------------------ C9
\* C9: in an eviction pass the capacity branch removes something only when
\* more than max_conversations conversations are left by the age removals;
\* it then removes exactly the excess, all of them at most as recently
\* accessed as every conversation it keeps.
EvictsLeastRecent(before, after, t) ==
    LET aged == AgedSet(before, t)
        remaining == KeysOf(before) \ aged
        capacity == (KeysOf(before) \ KeysOf(after)) \ aged
    IN  /\ KeysOf(after) \subseteq KeysOf(before)
        /\ IF Cardinality(remaining) > max_conversations
           THEN /\ Cardinality(capacity) = Cardinality(remaining) - max_conversations
                /\ \A r \in capacity, k \in remaining \ capacity :
                      Lookup(before, r).last_accessed <= Lookup(before, k).last_accessed
           ELSE capacity = {}

C9_CapacityEvictionLeastRecent ==
    [][/\ ReaperPassStep => EvictsLeastRecent(conversations, conversations', reaper.now)
       /\ ForcedPassStep => EvictsLeastRecent(Inserted, conversations', now)]_vars

\* A, B, C were created at times 0, 1, 2; creating C evicted A and kept B, C
C9_Witness ==
    /\ ret = Call("create", "C", TRUE)
    /\ now = 2
    /\ IdsOf(conversations) = <<"B", "C">>
    /\ conversations[1].last_accessed = 1
    /\ conversations[2].last_accessed = 2
    /\ stats.total_conversations_created = 3
    /\ stats.conversations_cleaned_up = 1

\* ------------------------------------------------------------------ C10
\* C10: the messages of a live conversation are the (query, response) pairs
\* of the successful add_message calls made on its id since it was created,
\* in call order.
C10_MessagesAreTheCalls ==
    \A i \in 1..Len(conversations) :
        Pairs(conversations[i]) = hist[conversations[i].conversation_id]

\* a conversation holds two different exchanges, in the order they were added
C10_Witness ==
    \E i \in 1..Len(conversations) :
        Pairs(conversations[i]) = <<<<"hi", "hello">>, <<"q", "r">>>>

\* ------------------------------------------------------------------ C11
\* C11: a create call with an id already in the store returns that id and
\* leaves that conversation's messages and created_at, the number of live
\* conversations and the creation counter as they were; it runs no eviction.
C11_CreateExistingIsNoOp ==
    [][Returns("create") /\ Has(conversations, ret'.id) =>
          LET id == ret'.id
          IN  /\ Has(conversations', id)
              /\ Lookup(conversations', id).messages = Lookup(conversations, id).messages
              /\ Lookup(conversations', id).created_at = Lookup(conversations, id).created_at
              /\ Len(conversations') = Len(conversations)
              /\ KeysOf(conversations') = KeysOf(conversations)
              /\ stats'.total_conversations_created = stats.total_conversations_created
              /\ stats'.conversations_cleaned_up = stats.conversations_cleaned_up
              /\ stats'.last_cleanup = stats.last_cleanup]_vars

\* create was called again, later, on a conversation that holds a message
C11_Witness ==
    /\ ret.op = "create" /\ ~ret.ok
    /\ Has(conversations, ret.id)
    /\ Lookup(conversations, ret.id).messages # <<>>
    /\ Lookup(conversations, ret.id).created_at < now

\* ------------------------------------------------------------------ C12
\* C12: add_message on an id that is not in the store returns False and
\* leaves the mapping, every conversation and every counter as they were; on
\* a known id it returns True, appends one message to that conversation,
\* sets its last_accessed to the current time and adds one to
\* total_messages_stored, and touches nothing else.
C12_AddMessageUnknownOrKnown ==
    [][Returns("add_message") =>
          LET id == ret'.id
          IN  IF ~Has(conversations, id)
              THEN /\ ~ret'.ok
                   /\ conversations' = conversations
                   /\ stats' = stats
              ELSE LET i == IndexOf(conversations, id)
                   IN  /\ ret'.ok
                       /\ IdsOf(conversations') = IdsOf(conversations)
                       /\ \A j \in 1..Len(conversations) :
                             j # i => conversations'[j] = conversations[j]
                       /\ Len(conversations'[i].messages) = Len(conversations[i].messages) + 1
                       /\ IsPrefix(conversations[i].messages, conversations'[i].messages)
                       /\ conversations'[i].last_accessed = now
                       /\ conversations'[i].created_at = conversations[i].created_at
                       /\ stats' = [stats EXCEPT !.total_messages_stored = @ + 1]]_vars

\* Scenario B on a store that holds a conversation and a message
C12_Witness ==
    /\ ret.op = "add_message" /\ ~ret.ok
    /\ ~Has(conversations, ret.id)
    /\ conversations # <<>>
    /\ stats.total_messages_stored > 0

\* ------------------------------------------------------------------ C13
\* C13: the stream resolves its conversation before any backend call: with
\* no conversation_id it creates a conversation under a fresh id, with an id
\* the store does not know it creates one under that id, with a known id it
\* creates nothing; the resolved id never changes afterwards and every frame
\* of the stream, the terminal one included, carries it.
C13_ResolvedIdOnEveryFrame ==
    /\ [][\A s \in Streams :
            /\ pc[s] = "idle" /\ pc'[s] # "idle" =>
                  LET id == conversation_id'[s]
                      req == request_id'[s]
                  IN  /\ id # None
                      /\ req # None => id = req
                      /\ req = None => ~Has(conversations, id)
                      /\ Has(conversations', id)
                      /\ IF Has(conversations, id)
                         THEN conversations' = conversations /\ stats' = stats
                         ELSE /\ Lookup(conversations', id) = NewConversation(id, now)
                              /\ stats'.total_conversations_created =
                                    stats.total_conversations_created + 1
                      /\ worker'[s] = "none" /\ produced'[s] = <<>>
            /\ pc[s] # "idle" => conversation_id'[s] = conversation_id[s]]_vars
    /\ [](\A s \in Streams :
            /\ worker[s] # "none" => conversation_id[s] # None
            /\ \A i \in 1..Len(events[s]) :
                  events[s][i].conversation_id = conversation_id[s])

\* a request without conversation_id, read to its end: the conversation was
\* created under the fresh id and both frames carry it
C13_Witness ==
    \E s \in Streams :
        /\ pc[s] = "done"
        /\ request_id[s] = None
        /\ conversation_id[s] = Uuid[s]
        /\ Has(conversations, Uuid[s])
        /\ Len(events[s]) = 2
        /\ events[s][1].conversation_id = Uuid[s] /\ ~events[s][1].done
        /\ events[s][2].conversation_id = Uuid[s] /\ events[s][2].done

\* ------------------------------------------------------------------ C14
\* C14: when the conversation holds at least one message at the context
\* fetch, the stream sends the backend a history made of its last 10
\* exchanges at most (all of them when fewer), oldest first, a user entry
\* and a model entry for each, ending with the new user turn; when it holds
\* none, or is absent, the backend is sent the bare query and no history.
Min(a, b) == IF a < b THEN a ELSE b

C14_BackendPrompt ==
    [][\A s \in Streams :
          pc[s] = "resolved" /\ pc'[s] = "await" =>
              LET id == conversation_id[s]
                  msgs == IF Has(conversations, id)
                          THEN Lookup(conversations, id).messages ELSE <<>>
                  k == Min(10, Len(msgs))
                  first == Len(msgs) - k
                  p == prompt_input'[s]
              IN  IF msgs = <<>>
                  THEN p = [kind |-> "text", text |-> StreamQueries[s], history |-> <<>>]
                  ELSE /\ p.kind = "history"
                       /\ Len(p.history) = 2 * k + 1
                       /\ \A j \in 1..k :
                             /\ p.history[2 * j - 1] =
                                   [role |-> "user", text |-> msgs[first + j].query]
                             /\ p.history[2 * j] =
                                   [role |-> "model", text |-> msgs[first + j].response]
                       /\ p.history[2 * k + 1] =
                             [role |-> "user", text |-> StreamQueries[s]]]_vars

\* the conversation held 11 exchanges: the history starts at the second one
\* and has 10 exchanges and the new turn
C14_Witness ==
    \E s \in Streams :
        /\ pc[s] = "await"
        /\ prompt_input[s].kind = "history"
        /\ Len(prompt_input[s].history) = 21
        /\ prompt_input[s].history[1] = [role |-> "user", text |-> NthQuery(1)]
        /\ prompt_input[s].history[20] = [role |-> "model", text |-> NthResponse(10)]
        /\ prompt_input[s].history[21] = [role |-> "user", text |-> StreamQueries[s]]

\* ------------------------------------------------------------------ C15
\* the messages of the conversation a get_conversation_context call has just
\* read, and how many of them a call with include_last_n = n covers
ReadMessages == Lookup(conversations, ret.id).messages

Covered(n, count) == IF n > 0 THEN Min(n, count) ELSE count

\* C15 as stated: a call with include_last_n = K > 0 on a known id returns
\* exactly min(K, message count) entries.
C15_MinEntries ==
    ret.op = "get_context" /\ ret.ok /\ returned.include_last_n > 0 =>
        Len(returned.context[1]) = Min(returned.include_last_n, Len(ReadMessages))

\* C15, amended: a call with include_last_n = K on a known id returns two
\* entries for each of the last min(K, message count) messages when K > 0,
\* and for each stored message when K <= 0: the roles alternate user, model,
\* the entries are oldest first and, when there is one, the last entry is the
\* model entry of the most recent response.
C15_TwoEntriesPerCoveredMessage ==
    ret.op = "get_context" /\ ret.ok =>
        LET ctx == returned.context[1]
            msgs == ReadMessages
            k == Covered(returned.include_last_n, Len(msgs))
        IN  /\ Len(ctx) = 2 * k
            /\ \A j \in 1..Len(ctx) :
                  ctx[j].role = IF j % 2 = 1 THEN "user" ELSE "model"
            /\ \A j \in 1..Min(k, Len(ctx) \div 2) :
                  ctx[2 * j].text = msgs[Len(msgs) - k + j].response
            /\ k > 0 /\ Len(ctx) > 0 =>
                  ctx[Len(ctx)] = [role |-> "model", text |-> msgs[Len(msgs)].response]

\* include_last_n = 10 on a conversation of 11 exchanges: 20 entries, the
\* last one the response of the eleventh
C15_Witness ==
    /\ ret.op = "get_context" /\ ret.ok
    /\ returned.include_last_n = 10
    /\ Len(ReadMessages) = 11
    /\ Len(returned.context[1]) = 20
    /\ returned.context[1][20] = [role |-> "model", text |-> NthResponse(10)]

\* ------------------------------------------------------------------ C16
\* C16: get_conversation_context returns None for an id that is not in the
\* store and then changes nothing; for a known id it returns, for each
\* message of a tail of the stored messages, oldest first, a user entry with
\* the message's query immediately followed by a model entry with its
\* response, and it leaves the stored messages of every conversation as
\* they were.
C16_ContextPairsPerMessage ==
    [][Returns("get_context") =>
          LET id == ret'.id
              result == returned'.context
          IN  IF ~Has(conversations, id)
              THEN /\ result = <<>>
                   /\ conversations' = conversations
                   /\ stats' = stats
              ELSE /\ Len(result) = 1
                   /\ LET ctx == result[1]
                          msgs == Lookup(conversations, id).messages
                          k == Len(ctx) \div 2
                      IN  /\ Len(ctx) = 2 * k
                          /\ k <= Len(msgs)
                          /\ \A j \in 1..k :
                                /\ ctx[2 * j - 1] =
                                      [role |-> "user", text |-> msgs[Len(msgs) - k + j].query]
                                /\ ctx[2 * j] =
                                      [role |-> "model", text |-> msgs[Len(msgs) - k + j].response]
                   /\ IdsOf(conversations') = IdsOf(conversations)
                   /\ \A i \in 1..Len(conversations) :
                         conversations'[i].messages = conversations[i].messages]_vars

\* the last two of three stored exchanges, as four entries
C16_Witness ==
    /\ ret.op = "get_context" /\ ret.ok
    /\ returned.include_last_n = 2
    /\ Len(Lookup(conversations, ret.id).messages) = 3
    /\ returned.context =
          <<<<[role |-> "user", text |-> NthQuery(1)], [role |-> "model", text |-> NthResponse(1)],
              [role |-> "user", text |-> NthQuery(2)], [role |-> "model", text |-> NthResponse(2)]>>>>

\* ------------------------------------------------------------------ C17
\* C17: get_conversation on an id in the store sets that conversation's
\* last_accessed to the current time and changes nothing else; on an id that
\* is not in the store it returns None and changes nothing: no conversation
\* is created and no counter moves.
C17_GetTouchesOnly ==
    [][Returns("get") =>
          LET id == ret'.id
          IN  /\ ret'.ok = Has(conversations, id)
              /\ stats' = stats
              /\ IdsOf(conversations') = IdsOf(conversations)
              /\ \A i \in 1..Len(conversations) :
                    /\ conversations'[i].messages = conversations[i].messages
                    /\ conversations'[i].created_at = conversations[i].created_at
                    /\ conversations'[i].last_accessed =
                          IF conversations[i].conversation_id = id
                          THEN now ELSE conversations[i].last_accessed]_vars

\* a conversation created earlier has just been read
C17_Witness ==
    /\ ret.op = "get" /\ ret.ok
    /\ Has(conversations, ret.id)
    /\ Lookup(conversations, ret.id).created_at < now
    /\ Lookup(conversations, ret.id).last_accessed = now
    /\ Len(conversations) = 2

\* ------------------------------------------------------------------ C18
\* C18: no stored message has an empty response: a stream whose backend
\* ends without a non-empty fragment leaves no message with response "".
C18_NoEmptyResponseStored ==
    \A i \in 1..Len(conversations) :
        \A k \in 1..Len(conversations[i].messages) :
            conversations[i].messages[k].response # ""

\* ------------------------------------------------------------------ C19
\* C19: a stream that was opened and whose consumer keeps reading comes to
\* its end with a last frame that has done = TRUE, whether the backend
\* stream ends or raises; when the backend raised, that frame has an error.
StreamFinished(s) ==
    /\ pc[s] = "done"
    /\ events[s] # <<>>
    /\ events[s][Len(events[s])].done

C20_MessagesAppendOnly ==
    [][\A id \in KeysOf(conversations) \cap KeysOf(conversations') :
          IsPrefix(Lookup(conversations, id).messages,
                   Lookup(conversations', id).messages)]_vars

\* a stream read the conversation's one exchange as its history and then
\* committed its own after it
C20_Witness ==
    \E s \in Streams :
        /\ pc[s] = "done"
        /\ prompt_input[s].kind = "history"
        /\ Has(conversations, conversation_id[s])
        /\ Pairs(Lookup(conversations, conversation_id[s])) =
              <<OtherExchange, <<StreamQueries[s], "Hello">>>>

\* ------------------------------------------------------------------ C21
\* C21: a call of _cleanup_old_conversations without force, made less than
\* cleanup_interval after the last pass, returns without removing anything
\* and leaves the mapping, the counters and last_cleanup as they were; made
\* when no pass has run yet, or cleanup_interval or more after the last one,
\* it goes on to the pass, which records the time the call read as
\* last_cleanup.
C21_IntervalGate ==
    [][/\ Returns("cleanup_check") =>
             /\ conversations' = conversations
             /\ stats' = stats
             /\ IF stats.last_cleanup # NoTime /\ now - stats.last_cleanup < cleanup_interval
                THEN reaper'.pc = "sleep" /\ ~ret'.ok
                ELSE reaper'.pc = "pass" /\ reaper'.now = now /\ ret'.ok
       /\ ReaperPassStep =>
             /\ reaper.pc = "pass"
             /\ stats'.last_cleanup = reaper.now
             /\ AgedSet(conversations, reaper.now) \cap KeysOf(conversations') = {}]_vars

\* the reaper's call came right after the forced pass of a create and
\* returned at the interval test
C21_Witness ==
    /\ ret.op = "cleanup_check" /\ ~ret.ok
    /\ stats.last_cleanup = now
    /\ stats.conversations_cleaned_up > 0
    /\ reaper.pc = "sleep"
    /\ Len(conversations) = max_conversations

\* ------------------------------------------------------------------ C22
\* the ids a step takes out of the store
Removed == KeysOf(conversations) \ KeysOf(conversations')

\* the step is an eviction pass: the reaper's, or the forced one of a create
PassStep == ReaperPassStep \/ ForcedPassStep

\* C22: get_stats agrees with the calls made so far: active_conversations is
\* the number of conversations in the store; total_conversations_created
\* grows by one with each create call that inserts, total_messages_stored by
\* one with each add_message call on a known id, conversations_cleaned_up by
\* the number of conversations an eviction pass removes, and by nothing
\* else; last_cleanup is set by each pass that runs, to the pass's time.
C22_StatsFollowHistory ==
    /\ [](get_stats(conversations, stats).active_conversations
            = Cardinality(KeysOf(conversations)))
    /\ [][LET old == get_stats(conversations, stats)
              new == get_stats(conversations', stats')
          IN  /\ new.total_conversations_created = old.total_conversations_created
                    + (IF Returns("create") /\ ~Has(conversations, ret'.id) THEN 1 ELSE 0)
              /\ new.total_messages_stored = old.total_messages_stored
                    + (IF Returns("add_message") /\ Has(conversations, ret'.id) THEN 1 ELSE 0)
              /\ new.conversations_cleaned_up = old.conversations_cleaned_up
                    + (IF PassStep THEN Cardinality(Removed) ELSE 0)
              /\ new.last_cleanup =
                    IF ReaperPassStep THEN reaper.now
                    ELSE IF ForcedPassStep THEN now
                    ELSE old.last_cleanup]_vars

\* get_stats after three creates, one message, an eviction and a delete
C22_Witness ==
    /\ ret.op = "get_stats"
    /\ get_stats(conversations, stats) =
          [total_conversations_created |-> 3, total_messages_stored |-> 1,
           conversations_cleaned_up |-> 1, last_cleanup |-> 2,
           active_conversations |-> 1, max_conversations |-> max_conversations,
           max_conversation_age_hours |-> max_conversation_age]

\* ------------------------------------------------------------------ C23
\* what a delete_conversation step does: it returns True exactly when the id
\* was in the store, the id is not in the store afterwards, and every other
\* conversation is there as it was
DeleteRemovesOnlyItsId ==
    Returns("delete") =>
        /\ ret'.ok = Has(conversations, ret'.id)
        /\ ~Has(conversations', ret'.id)
        /\ conversations' =
              SelectSeq(conversations, LAMBDA c : c.conversation_id # ret'.id)

\* C23 as stated: a conversation leaves the store only in an eviction pass
\* or in a delete of its id.
C23_RemovedOnlyByEvictionOrDelete ==
    [][/\ Removed # {} => PassStep \/ (Returns("delete") /\ Removed = {ret'.id})
       /\ DeleteRemovesOnlyItsId]_vars

\* C23, amended: a conversation leaves the store only in an eviction pass,
\* in a delete of its id or in clear_all; add_message, get,
\* get_conversation_context, conversation_exists, get_stats and a create of
\* an id already present remove nothing; delete is as above.
C23_RemovedOnlyByEvictionDeleteOrClear ==
    [][/\ Removed # {} =>
             \/ PassStep
             \/ Returns("delete") /\ Removed = {ret'.id}
             \/ Returns("clear_all")
       /\ DeleteRemovesOnlyItsId]_vars

\* one of two conversations was deleted; the other, with its message, is left
C23_Witness ==
    /\ ret.op = "delete" /\ ret.ok
    /\ ~Has(conversations, ret.id)
    /\ Len(conversations) = 1
    /\ conversations[1].messages # <<>>
    /\ stats.conversations_cleaned_up = 0

\* ------------------------------------------------------------------ C24
\* C24: every conversation in the store has last_accessed >= created_at,
\* and the timestamps of its messages never decrease along the list,
\* whichever callers appended them.
C24_TimestampsOrdered ==
    \A i \in 1..Len(conversations) :
        /\ conversations[i].last_accessed >= conversations[i].created_at
        /\ \A k \in 1..(Len(conversations[i].messages) - 1) :
              conversations[i].messages[k].timestamp
                  <= conversations[i].messages[k + 1].timestamp

\* two messages appended at different times to a conversation created before
C24_Witness ==
    \E i \in 1..Len(conversations) :
        /\ Len(conversations[i].messages) = 2
        /\ conversations[i].created_at = 0
        /\ conversations[i].messages[1].timestamp = 0
        /\ conversations[i].messages[2].timestamp = 1
        /\ conversations[i].last_accessed = 1

\* ------------------------------------------------------------------ C25
\* C25: a POST /query request, whether it succeeds or fails in any of its
\* ways, leaves the store as it was: no conversation is created, read,
\* touched or appended to, and no counter moves.
C25_QueryLeavesStoreAlone ==
    [][Returns("query") =>
          /\ ret'.id \in QueryOutcomes
          /\ conversations' = conversations
          /\ stats' = stats]_vars

\* a successful query on a store that holds a conversation and a message
C25_Witness ==
    /\ ret = Call("query", "ok", TRUE)
    /\ stats.total_messages_stored = 1
    /\ Len(conversations) = 2

\* ------------------------------------------------------------------ C26
\* C26: get_stats changes nothing in the store; GET /conversation/{id}
\* changes at most the last_accessed of the conversation with that id, and
\* on an id that is not in the store it reports not found and changes
\* nothing: the conversation is not created.
C26_ReadEndpointsReadOnly ==
    [][/\ Returns("get_stats") => conversations' = conversations /\ stats' = stats
       /\ Returns("history") =>
             /\ ret'.ok = Has(conversations, ret'.id)
             /\ stats' = stats
             /\ IdsOf(conversations') = IdsOf(conversations)
             /\ \A i \in 1..Len(conversations) :
                   /\ conversations'[i].messages = conversations[i].messages
                   /\ conversations'[i].created_at = conversations[i].created_at
                   /\ conversations[i].conversation_id # ret'.id =>
                         conversations'[i].last_accessed = conversations[i].last_accessed]_vars

\* the history of an unknown id was asked of a store that holds another
C26_Witness ==
    /\ ret.op = "history" /\ ~ret.ok
    /\ ~Has(conversations, ret.id)
    /\ conversations # <<>>
    /\ stats.total_conversations_created = Len(conversations)

\* ------------------------------------------------------------------ C27
\* C27: every call reads and writes the mapping, the messages and
\* last_accessed of a conversation and the cleanup bookkeeping only while it
\* holds the store's lock.
C27_AllAccessUnderLock == [][UnderLock(ret'.op)]_vars

\* ------------------------------------------------------------------ C28
\* the number of messages in the store
RECURSIVE TotalMessages(_)
TotalMessages(convs) ==
    IF convs = <<>> THEN 0 ELSE Len(Head(convs).messages) + TotalMessages(Tail(convs))

\* the message a commit step stores: the stream's exchange, or the other
\* caller's
CommittedMessage ==
    IF Returns("stream_end")
    THEN LET s == CHOOSE s \in Streams : conversation_id[s] = ret'.id
         IN  NewMessage(StreamQueries[s], full_response[s], now)
    ELSE NewMessage(OtherExchange[1], OtherExchange[2], now)

C29_NoStoreCallDuringBackendCall ==
    [][\A s \in Streams :
          /\ Returns("stream_open") \/ Returns("stream_context") => worker[s] = "none"
          /\ Returns("stream_end") => worker[s] = "ended"
          /\ ret'.op \in {"worker_pull", "worker_end", "worker_raise",
                           "stream_chunk", "stream_error", "disconnect"} =>
                conversations' = conversations /\ stats' = stats]_vars

\* the backend call is in progress, two fragments in, and another caller
\* has just taken and released the lock for an add_message
C29_Witness ==
    \E s \in Streams :
        /\ worker[s] = "run"
        /\ Len(produced[s]) = 2
        /\ ret.op = "add_message" /\ ret.ok
        /\ ret.id = conversation_id[s]

\* ------------------------------------------------------------------ C30
\* C30: a failing pass does not end the cleanup loop: the thread is always
\* either sleeping or in a pass, a pass that raised leaves it sleeping for
\* cleanup_interval from that moment, and (while the clock can reach the end
\* of that sleep) the non-forced _cleanup_old_conversations call is made
\* again.
C30_ReaperSurvivesFailingPass ==
    /\ [](reaper.pc \in {"sleep", "pass"})
    /\ [](ret.op = "cleanup_failed" =>
             reaper.pc = "sleep" /\ reaper.wake = now + cleanup_interval)
    /\ (ret.op = "cleanup_failed" /\ now + cleanup_interval <= MaxTime)
          ~> (ret.op = "cleanup_check")

\* the non-forced call has been made again after a pass that raised: no pass
\* has ever completed, yet the sleep has been restarted
C30_Witness ==
    /\ ret.op = "cleanup_check"
    /\ reaper.pc = "pass"
    /\ reaper.wake > cleanup_interval
    /\ stats.last_cleanup = NoTime

\* ------------------------------------------------------------------ C31
\* C31: with max_conversations >= 1, when create_conversation has inserted a
\* new id and returns, that id is in the store with no messages, whatever
\* the forced cleanup it triggered removed and whatever conversations share
\* its last_accessed.
C31_CreateKeepsNewConversation ==
    (ret.op = "create" /\ ret.ok) =>
        /\ max_conversations >= 1
        /\ Has(conversations, ret.id)
        /\ Lookup(conversations, ret.id).messages = <<>>

\* the create that took the store over max_conversations at clock 0: its
\* forced cleanup removed a conversation with the same last_accessed as the
\* new one, which stays
C31_Witness ==
    /\ ret.op = "create" /\ ret.ok
    /\ now = 0
    /\ stats.total_conversations_created = max_conversations + 1
    /\ stats.conversations_cleaned_up = 1
    /\ Has(conversations, ret.id)
    /\ \E i \in 1..Len(conversations) :
          /\ conversations[i].conversation_id # ret.id
          /\ conversations[i].last_accessed = Lookup(conversations, ret.id).last_accessed

\* ------------------------------------------------------------------ C32
\* C32: _stats["last_cleanup"] never moves backwards: every step, of the
\* cleanup thread's pass or of a create_conversation with its forced pass,
\* leaves a last_cleanup that is not earlier than the one before.
C32_LastCleanupMonotone ==
    [][stats'.last_cleanup >= stats.last_cleanup]_vars

\* ------------------------------------------------------------------ C33
\* C33: when the conversation of a stream is no longer in the store at the
\* end of the backend stream, the add_message of the generator is refused:
\* the mapping and the counters stay as they were (no message, no new
\* conversation, total_messages_stored unchanged), and the generator yields
\* its final frame, done with no error, the only done frame of the stream.
C33_CommitOnRemovedConversation ==
    [][\A s \in Streams :
          (Returns("stream_end") /\ pc[s] = "await" /\ pc'[s] = "done"
             /\ ~Has(conversations, conversation_id[s])) =>
            /\ conversations' = conversations
            /\ stats' = stats
            /\ ~ret'.ok
            /\ events'[s] = Append(events[s], Chunk("", conversation_id[s], TRUE, None))
            /\ Cardinality({k \in 1..Len(events'[s]) : events'[s][k].done}) = 1]_vars

\* a stream that delivered text has ended after its conversation was deleted
C33_Witness ==
    \E s \in Streams :
        /\ ret.op = "stream_end" /\ ~ret.ok
        /\ pc[s] = "done"
        /\ full_response[s] # ""
        /\ ~Has(conversations, conversation_id[s])
        /\ stats.total_messages_stored = 0

\* ------------------------------------------------------------------ C34
\* the conversations created and neither live nor counted as cleaned up
Unaccounted(convs, st) ==
    st.total_conversations_created - Len(convs) - st.conversations_cleaned_up

\* a step of delete_conversation or clear_all
CallerRemoval == Returns("delete") \/ Returns("clear_all")

\* C34: total_conversations_created = active conversations +
\* conversations_cleaned_up + the conversations removed by
\* delete_conversation and clear_all.  It holds at construction, and every
\* step keeps it: the difference grows by what a delete or clear_all removes
\* and by nothing else, delete and clear_all leave the four counters as they
\* were, and a create that inserts counts one creation whatever its forced
\* pass removes and counts as cleaned up.
C34_CreatedAccounting ==
    /\ Unaccounted(conversations, stats) = 0
    /\ [][/\ Unaccounted(conversations', stats') - Unaccounted(conversations, stats)
               = (IF CallerRemoval THEN Len(conversations) - Len(conversations') ELSE 0)
           /\ (CallerRemoval => stats' = stats)
           /\ ((Returns("create") /\ ret'.ok) =>
                 /\ stats'.total_conversations_created
                      = stats.total_conversations_created + 1
                 /\ stats'.conversations_cleaned_up - stats.conversations_cleaned_up
                      = Len(conversations) + 1 - Len(conversations'))]_vars

\* three conversations were created, one was evicted by a forced pass and
\* clear_all has just removed the other two
C34_Witness ==
    /\ ret.op = "clear_all" /\ ret.ok
    /\ conversations = <<>>
    /\ stats.total_conversations_created = 3
    /\ stats.conversations_cleaned_up = 1
    /\ Unaccounted(conversations, stats) = 2

C36_OnlyReadsAndAppendsTouch ==
    [][/\ Returns("exists") => conversations' = conversations
       /\ (Returns("create") /\ ~ret'.ok) => conversations' = conversations
       /\ \A id \in KeysOf(conversations) \cap KeysOf(conversations') :
             Lookup(conversations', id).last_accessed # Lookup(conversations, id).last_accessed =>
                 /\ ret'.op \in {"get", "get_context", "add_message"}
                 /\ ret'.id = id]_vars

\* conversation_exists has answered True for a conversation last accessed
\* max_conversation_age ago, and its last_accessed is still that old
C36_Witness ==
    /\ ret.op = "exists" /\ ret.ok
    /\ Has(conversations, ret.id)
    /\ now - Lookup(conversations, ret.id).last_accessed = max_conversation_age

====
